---- MODULE Spec2Model ----
(***************************************************************************)
(* Model of final.py: the fixed-step IVP solver ODESolver (explicit Euler  *)
(* and classical RK4 over a time grid) and nth_order_to_system.            *)
(*                                                                         *)
(* Numbers.  A real is a dyadic rational <<m, e>> = m * 2^e in canonical   *)
(* form (m odd, or <<0, 0>>).  An int64 value is a real with e >= 0 and    *)
(* int arithmetic is exact.  A float64 value is a real whose mantissa has  *)
(* at most MantBits bits: every float operation is the exact operation     *)
(* followed by round-to-nearest, ties-to-even, as IEEE-754 does.  The      *)
(* source's floats carry 53 bits; the model carries MantBits bits and no   *)
(* exponent limit (no overflow, underflow or subnormals).  A complex128    *)
(* value is a pair of floats.  An element is a record [re, im].            *)
(*                                                                         *)
(* Arrays.  A numpy array is [dtype, shape, data]: dtype is "int",         *)
(* "float" or "complex", shape a sequence of 0..2 dimensions, data the     *)
(* elements in row-major order.  A Python or numpy scalar is an array of   *)
(* shape <<>>.  A raised exception is carried as an array whose dtype is   *)
(* the exception's name; every operation passes it on.                     *)
(***************************************************************************)
EXTENDS Integers, Sequences, FiniteSets, TLC

\* Bits of mantissa of a float (53 in the source's float64).
MantBits == 5

-----------------------------------------------------------------------------
(* Reals as dyadic rationals                                               *)

Abs(n) == IF n < 0 THEN -n ELSE n

Sgn(n) == IF n < 0 THEN -1 ELSE 1

Min(a, b) == IF a <= b THEN a ELSE b

Max(a, b) == IF a >= b THEN a ELSE b

RECURSIVE NormD(_, _)
NormD(m, e) ==
    IF m = 0 THEN <<0, 0>>
    ELSE IF m % 2 = 0 THEN NormD(m \div 2, e + 1)
    ELSE <<m, e>>

RECURSIVE BitLen(_)
BitLen(a) == IF a = 0 THEN 0 ELSE 1 + BitLen(a \div 2)

Zero == <<0, 0>>

FromInt(n) == NormD(n, 0)

\* the exact sum, product and negation of two reals
AddX(x, y) ==
    LET e == Min(x[2], y[2])
    IN  NormD(x[1] * 2^(x[2] - e) + y[1] * 2^(y[2] - e), e)

MulX(x, y) == NormD(x[1] * y[1], x[2] + y[2])

NegX(x) == <<-x[1], x[2]>>

SubX(x, y) == AddX(x, NegX(y))

\* x < y on reals
LessX(x, y) == SubX(x, y)[1] < 0

\* round-to-nearest, ties-to-even, to MantBits bits of mantissa
RoundD(x) ==
    LET a == Abs(x[1])
        L == BitLen(a)
    IN  IF L <= MantBits THEN x
        ELSE LET k  == L - MantBits
                 q  == a \div 2^k
                 r  == a % 2^k
                 h  == 2^(k - 1)
                 up == r > h \/ (r = h /\ q % 2 = 1)
             IN  NormD(Sgn(x[1]) * (IF up THEN q + 1 ELSE q), x[2] + k)

\* the correctly rounded quotient x / y of two reals, y # 0
DivR(x, y) ==
    LET n == Abs(x[1])
        d == Abs(y[1])
        s == Max(0, MantBits + 2 + BitLen(d) - BitLen(n))
        q == (n * 2^s) \div d
        r == (n * 2^s) % d
        sg == Sgn(x[1]) * Sgn(y[1])
    IN  IF n = 0 THEN Zero
        ELSE IF r = 0 THEN RoundD(NormD(sg * q, x[2] - y[2] - s))
        ELSE RoundD(NormD(sg * (2 * q + 1), x[2] - y[2] - s - 1))

\* truncation toward zero (the C cast of a float to an integer)
TruncD(x) ==
    IF x[2] >= 0 THEN x
    ELSE NormD(Sgn(x[1]) * (Abs(x[1]) \div 2^(-x[2])), 0)

\* the integer ceil(x)
CeilInt(x) ==
    IF x[2] >= 0 THEN x[1] * 2^x[2]
    ELSE -((-x[1]) \div 2^(-x[2]))

-----------------------------------------------------------------------------
(* Elements and dtypes                                                     *)

Kinds == <<"int", "float", "complex">>

KindRank(d) == CHOOSE k \in 1..3 : Kinds[k] = d

\* numpy's result type of two of the three default dtypes
Promote(d1, d2) == Kinds[Max(KindRank(d1), KindRank(d2))]

IsErr(A) == A.dtype \notin {"int", "float", "complex"}

Raise(name) == [dtype |-> name, shape |-> <<>>, data |-> <<>>]

El(re, im) == [re |-> re, im |-> im]

\* an element of dtype `from` converted to dtype `to` (astype)
Conv(x, from, to) ==
    IF to = "int" THEN El(TruncD(x.re), Zero)
    ELSE IF to = "float" THEN El(RoundD(x.re), Zero)
    ELSE IF from = "int" THEN El(RoundD(x.re), Zero)
    ELSE x

ElAdd(d, x, y) ==
    IF d = "int" THEN El(AddX(x.re, y.re), Zero)
    ELSE El(RoundD(AddX(x.re, y.re)), RoundD(AddX(x.im, y.im)))

ElSub(d, x, y) ==
    IF d = "int" THEN El(SubX(x.re, y.re), Zero)
    ELSE El(RoundD(SubX(x.re, y.re)), RoundD(SubX(x.im, y.im)))

ElMul(d, x, y) ==
    IF d = "int" THEN El(MulX(x.re, y.re), Zero)
    ELSE IF d = "float" THEN El(RoundD(MulX(x.re, y.re)), Zero)
    ELSE El(RoundD(SubX(RoundD(MulX(x.re, y.re)), RoundD(MulX(x.im, y.im)))),
            RoundD(AddX(RoundD(MulX(x.re, y.im)), RoundD(MulX(x.im, y.re)))))

\* true division; the model divides by real numbers only (2 and 6, a step)
ElDiv(d, x, y) ==
    IF d = "complex" THEN El(DivR(x.re, y.re), DivR(x.im, y.re))
    ELSE El(DivR(x.re, y.re), Zero)

ElOp(op, d, x, y) ==
    CASE op = "add" -> ElAdd(d, x, y)
      [] op = "sub" -> ElSub(d, x, y)
      [] op = "mul" -> ElMul(d, x, y)
      [] op = "div" -> ElDiv(d, x, y)

-----------------------------------------------------------------------------
(* Arrays                                                                  *)

\* a shape padded to two dimensions, as broadcasting aligns it
Pad(shape) ==
    IF Len(shape) = 0 THEN <<1, 1>>
    ELSE IF Len(shape) = 1 THEN <<1, shape[1]>>
    ELSE shape

Size(shape) == Pad(shape)[1] * Pad(shape)[2]

Broadcastable(s1, s2) ==
    \A k \in 1..2 : Pad(s1)[k] = Pad(s2)[k] \/ Pad(s1)[k] = 1 \/ Pad(s2)[k] = 1

BroadcastShape(s1, s2) ==
    LET full == [k \in 1..2 |-> Max(Pad(s1)[k], Pad(s2)[k])]
        rank == Max(Len(s1), Len(s2))
    IN  IF rank = 0 THEN <<>>
        ELSE IF rank = 1 THEN <<full[2]>>
        ELSE full

\* the element of A that broadcasting puts at flat position k of `shape`
At(A, shape, k) ==
    LET p == Pad(A.shape)
        C == Pad(shape)[2]
        i == IF p[1] = 1 THEN 0 ELSE (k - 1) \div C
        j == IF p[2] = 1 THEN 0 ELSE (k - 1) % C
    IN  A.data[i * p[2] + j + 1]

\* Op(x) with x evaluated once, before Op is applied
Bind(x, Op(_)) == CHOOSE r \in { Op(v) : v \in {x} } : TRUE

\* A op B elementwise, with numpy's broadcasting and type promotion;
\* "div" is true division, whose result is at least float
BinOpV(op, A, B) ==
    IF IsErr(A) THEN A
    ELSE IF IsErr(B) THEN B
    ELSE IF ~Broadcastable(A.shape, B.shape) THEN Raise("ValueError")
    ELSE LET d0 == Promote(A.dtype, B.dtype)
             d  == IF op = "div" THEN Promote(d0, "float") ELSE d0
             sh == BroadcastShape(A.shape, B.shape)
         IN  [dtype |-> d, shape |-> sh,
              data  |-> [k \in 1..Size(sh) |->
                           ElOp(op, d, Conv(At(A, sh, k), A.dtype, d),
                                       Conv(At(B, sh, k), B.dtype, d))]]

BinOp(op, A, B) == Bind(A, LAMBDA a : Bind(B, LAMBDA b : BinOpV(op, a, b)))

\* Python and numpy scalars
IntS(n) == [dtype |-> "int", shape |-> <<>>, data |-> <<El(FromInt(n), Zero)>>]

\* the float n / 2^k
FloatS(n, k) == [dtype |-> "float", shape |-> <<>>,
                 data |-> <<El(RoundD(NormD(n, -k)), Zero)>>]

\* a 1-D array from a sequence of scalars (np.array of a list)
Vec(dtype, xs) == [dtype |-> dtype, shape |-> <<Len(xs)>>,
                   data |-> [k \in 1..Len(xs) |-> Conv(xs[k].data[1], xs[k].dtype, dtype)]]

\* element k (from 1) of a 1-D array, as a numpy scalar
Item(A, k) == [dtype |-> A.dtype, shape |-> <<>>, data |-> <<A.data[k]>>]

\* A.astype(dtype)
AsType(A, dtype) == [A EXCEPT !.dtype = dtype,
                       !.data = [k \in 1..Len(A.data) |-> Conv(A.data[k], A.dtype, dtype)]]

-----------------------------------------------------------------------------
(* Derivative functions: the callables a caller hands to ODESolver         *)

\* A derivative function is [kind, val, n]:
\*   "const"   lambda t, y: val            (val a scalar or an array literal)
\*   "ident"   lambda t, y: y
\*   "time"    lambda t, y: t + 0*y
\*   "inplace" def f(t, y): y += 1; return y
\*   "neg"     nth_order_to_system(lambda t, y1..yn: -y1, n)
\*   "half"    nth_order_to_system(lambda t, y1..yn: 0.5, n)
Fn(kind, val, n) == [kind |-> kind, val |-> val, n |-> n]

\* g(t, *Y) for the two right-hand sides g of the model, Y a 1-D array
g(kind, t, Y) ==
    IF kind = "neg" THEN BinOp("mul", IntS(-1), Item(Y, 1))
    ELSE FloatS(1, 1)

\* the function F that nth_order_to_system(g, n) returns, applied to (t, Y):
\* [ret |-> what F returns, arg |-> Y as F leaves it].  g takes n values, so
\* *Y of another length is a TypeError.  F is reached with 1-D Y only.
FV(kind, n, t, Y) ==
    LET m   == Y.shape[1]
        gv  == g(kind, t, Y)
        out == [Y EXCEPT !.data =
                  [k \in 1..m |-> IF k < m THEN Y.data[k + 1]
                                  ELSE Conv(gv.data[1], gv.dtype, Y.dtype)]]
    IN  IF m # n THEN [ret |-> Raise("TypeError"), arg |-> Y]
        ELSE [ret |-> out, arg |-> Y]

F(kind, n, t, Y) == Bind(Y, LAMBDA v : FV(kind, n, t, v))

\* self.f(t, y): [ret |-> the value returned, arg |-> the array object y as
\* the call leaves it]
f_callV(f, t, Y) ==
    IF IsErr(Y) THEN [ret |-> Y, arg |-> Y]
    ELSE CASE f.kind = "const"   -> [ret |-> f.val, arg |-> Y]
           [] f.kind = "ident"   -> [ret |-> Y, arg |-> Y]
           [] f.kind = "time"    -> [ret |-> BinOp("add", t, BinOp("mul", IntS(0), Y)),
                                     arg |-> Y]
           [] f.kind = "inplace" -> Bind(BinOp("add", Y, IntS(1)),
                                         LAMBDA v : [ret |-> v, arg |-> v])
           [] OTHER              -> F(f.kind, f.n, t, Y)

f_call(f, t, Y) == Bind(Y, LAMBDA v : f_callV(f, t, v))

-----------------------------------------------------------------------------
(* The steppers.  Each returns [y |-> the new state, arg |-> the array     *)
(* object passed as y, as the calls of f leave it].                        *)

\* a step of twice the step size
step_euler_twice(f, t, y, dt) ==
    Bind(f_call(f, t, y), LAMBDA c :
        [y |-> BinOp("add", c.arg, BinOp("mul", BinOp("mul", IntS(2), dt), c.ret)),
         arg |-> c.arg])

\* line 31
step_euler(f, t, y, dt) ==
    Bind(f_call(f, t, y), LAMBDA c :
        [y |-> BinOp("add", c.arg, BinOp("mul", dt, c.ret)), arg |-> c.arg])

\* lines 34-39
step_rk4(f, t, y, dt) ==
    Bind(f_call(f, t, y), LAMBDA c1 :
    Bind(f_call(f, BinOp("add", t, BinOp("div", dt, IntS(2))),
                BinOp("add", c1.arg, BinOp("div", BinOp("mul", dt, c1.ret), IntS(2)))).ret,
         LAMBDA k2 :
    Bind(f_call(f, BinOp("add", t, BinOp("div", dt, IntS(2))),
                BinOp("add", c1.arg, BinOp("div", BinOp("mul", dt, k2), IntS(2)))).ret,
         LAMBDA k3 :
    Bind(f_call(f, BinOp("add", t, dt),
                BinOp("add", c1.arg, BinOp("mul", dt, k3))).ret,
         LAMBDA k4 :
        [y   |-> BinOp("add", c1.arg,
                    BinOp("mul", BinOp("div", dt, IntS(6)),
                        BinOp("add", BinOp("add", BinOp("add", c1.ret,
                            BinOp("mul", IntS(2), k2)), BinOp("mul", IntS(2), k3)), k4))),
         arg |-> c1.arg]))))

-----------------------------------------------------------------------------
(* ODESolver                                                               *)

VARIABLES
    self,      \* the solver object: [f, t0, y0, dim], y0 a reference into heap
    heap,      \* the ndarray objects of the solver and of the running call
    ctor,      \* the value the constructor stored in self.y0
    call,      \* the arguments of the current (or last) call of solve
    t_eval,    \* solve's local t_eval, the grid
    y,         \* solve's local y: a reference into heap
    ts,        \* solve's local ts
    ys,        \* solve's local ys: references into heap
    i,         \* solve's loop index
    pc,        \* "idle", "loop", "returned", "raised", "applied"
    err,       \* the name of the exception raised, or "None"
    result,    \* what solve returned: [times, states]
    expect,    \* what the last call returned, when this call repeats its arguments
    probe,     \* the arguments of a single application of a stepper or of F
    out        \* what that application gave

vars == <<self, heap, ctor, call, t_eval, y, ts, ys, i, pc, err, result, expect,
          probe, out>>

None == Raise("None")

NoResult == [times |-> None, states |-> None]

NoCall == [mode |-> "none", t_end |-> None, dt |-> None, t_eval |-> None, method |-> <<>>]

\* ODESolver.__init__(f, t0, y0, dtype): y0 is the array np.array makes of the
\* argument before any dtype is applied
ODESolver(f, t0, y0, dtype) ==
    LET a == IF dtype = "None" THEN y0 ELSE AsType(y0, dtype)
        b == IF Len(a.shape) = 0 THEN [a EXCEPT !.shape = <<1>>] ELSE a
    IN  [self |-> [f |-> f, t0 |-> t0, y0 |-> 1, dim |-> Size(b.shape)],
         heap |-> <<b>>]

\* a second name for the object at reference r: no new object
copy_alias(h, r) == [heap |-> h, ref |-> r]

\* a.copy() of the object at reference r: a new object holding the same value
copy(h, r) == [heap |-> Append(h, h[r]), ref |-> Len(h) + 1]

\* str.lower() on the letters the method names of the model use
lower_char(c) ==
    CASE c = "E" -> "e" [] c = "U" -> "u" [] c = "L" -> "l"
      [] c = "R" -> "r" [] c = "K" -> "k" [] OTHER -> c

lower(s) == [k \in 1..Len(s) |-> lower_char(s[k])]

\* np.arange(start, stop, step) on Python scalars
arange(start, stop, step) ==
    IF step.data[1].re = Zero THEN Raise("ZeroDivisionError")
    ELSE LET d     == Promote(Promote(start.dtype, stop.dtype), step.dtype)
             q     == BinOp("div", BinOp("sub", stop, start), step)
             n     == Max(0, CeilInt(q.data[1].re))
             first == AsType(start, d)
             next  == AsType(BinOp("add", start, step), d)
             delta == BinOp("sub", next, first)
         IN  [dtype |-> d, shape |-> <<n>>,
              data  |-> [k \in 1..n |->
                  IF k = 1 THEN first.data[1]
                  ELSE IF k = 2 THEN next.data[1]
                  ELSE BinOp("add", first, BinOp("mul", IntS(k - 1), delta)).data[1]]]

\* lines 42-45: the grid of a call
grid_of(t0, c) ==
    IF c.mode = "explicit" THEN c.t_eval
    ELSE arange(t0, BinOp("add", c.t_end, c.dt), c.dt)

\* one step size for the whole grid: the gap of its first two points
dt_global(te, k) == BinOp("sub", Item(te, 2), Item(te, 1))

\* lines 52-54: the step size of iteration k (k = 1 is the first step)
dt_now(te, k) == BinOp("sub", Item(te, k + 1), Item(te, k))

\* lines 56-59: the stepper a method name selects
stepper(method, f, t, yv, dt) ==
    Bind(dt, LAMBDA h :
        IF lower(method) = <<"e", "u", "l", "e", "r">> THEN step_euler(f, t, yv, h)
        ELSE step_rk4(f, t, yv, h))

\* np.array(ts)
times_of(tseq) == Vec(tseq[1].dtype, tseq)

RECURSIVE Flatten(_)
Flatten(seqs) == IF seqs = <<>> THEN <<>> ELSE Head(seqs) \o Flatten(Tail(seqs))

RECURSIVE PromoteAll(_)
PromoteAll(ds) == IF Len(ds) = 1 THEN ds[1] ELSE Promote(ds[1], PromoteAll(Tail(ds)))

\* np.vstack(arrays): every array as rows (a 1-D array is one row), stacked
vstack(arrs) ==
    LET cols == Pad(arrs[1].shape)[2]
        d    == PromoteAll([k \in 1..Len(arrs) |-> arrs[k].dtype])
        rows == Len(Flatten([k \in 1..Len(arrs) |-> arrs[k].data])) \div cols
    IN  IF \E k \in 1..Len(arrs) : Pad(arrs[k].shape)[2] # cols
        THEN Raise("ValueError")
        ELSE [dtype |-> d, shape |-> <<rows, cols>>,
              data  |-> Flatten([k \in 1..Len(arrs) |-> AsType(arrs[k], d).data])]

-----------------------------------------------------------------------------
(* solve, lines 41-64, in three steps: the lines before the loop, one      *)
(* iteration of the loop, and the return                                   *)

\* lines 42-49
Begin(c, exp) ==
    \E grid \in {grid_of(self.t0, c)}, c1 \in {copy(<<heap[self.y0]>>, self.y0)} :
    \E c2 \in {copy(c1.heap, c1.ref)} :
        /\ call' = c
        /\ expect' = exp
        /\ result' = NoResult
        /\ i' = 1
        /\ IF IsErr(grid)
           THEN /\ pc' = "raised" /\ err' = grid.dtype
                /\ t_eval' = None /\ heap' = <<heap[self.y0]>>
                /\ y' = 0 /\ ts' = <<>> /\ ys' = <<>>
           ELSE IF grid.shape[1] = 0
           THEN /\ pc' = "raised" /\ err' = "IndexError"
                /\ t_eval' = grid /\ heap' = c1.heap
                /\ y' = c1.ref /\ ts' = <<>> /\ ys' = <<>>
           ELSE /\ pc' = "loop" /\ err' = "None"
                /\ t_eval' = grid /\ heap' = c2.heap
                /\ y' = c1.ref /\ ts' = <<Item(grid, 1)>> /\ ys' = <<c2.ref>>
        /\ UNCHANGED <<self, ctor, probe, out>>

Outcome == [pc |-> pc, err |-> err, result |-> result]

SolveUniform(t_end, dt, method) ==
    /\ pc = "idle"
    /\ Begin([mode |-> "uniform", t_end |-> t_end, dt |-> dt, t_eval |-> None,
           method |-> method], None)

SolveExplicit(te, method) ==
    /\ pc = "idle"
    /\ Begin([mode |-> "explicit", t_end |-> None, dt |-> None, t_eval |-> te,
           method |-> method], None)

\* solve called again with the arguments of the call that just ended
SolveAgain ==
    /\ pc \in {"returned", "raised"}
    /\ Begin(call, Outcome)

\* lines 51-62: one iteration
Iterate ==
    /\ pc = "loop"
    /\ i < t_eval.shape[1]
    /\ \E r \in {stepper(call.method, self.f, Item(t_eval, i), heap[y], dt_now(t_eval, i))} :
       \E h1 \in {[heap EXCEPT ![y] = IF IsErr(r.arg) THEN @ ELSE r.arg]} :
       \E c1 \in {copy(Append(h1, r.y), Len(h1) + 1)} :
           IF IsErr(r.y)
           THEN /\ pc' = "raised" /\ err' = r.y.dtype
                /\ heap' = h1
                /\ UNCHANGED <<y, ts, ys, i>>
           ELSE /\ heap' = c1.heap
                /\ y' = Len(h1) + 1
                /\ ts' = Append(ts, Item(t_eval, i + 1))
                /\ ys' = Append(ys, c1.ref)
                /\ i' = i + 1
                /\ UNCHANGED <<pc, err>>
    /\ UNCHANGED <<self, ctor, call, t_eval, result, expect, probe, out>>

\* line 64
Return ==
    /\ pc = "loop"
    /\ i = t_eval.shape[1]
    /\ \E st \in {vstack([k \in 1..Len(ys) |-> heap[ys[k]]])} :
           IF IsErr(st)
           THEN /\ pc' = "raised" /\ err' = st.dtype /\ UNCHANGED result
           ELSE /\ pc' = "returned" /\ UNCHANGED err
                /\ result' = [times |-> times_of(ts), states |-> st]
    /\ UNCHANGED <<self, heap, ctor, call, t_eval, y, ts, ys, i, expect, probe, out>>

\* the caller lets go of what the call gave it: of the call nothing is left
\* but the solver object
Forget ==
    /\ pc \in {"returned", "raised"}
    /\ pc' = "idle"
    /\ heap' = <<heap[self.y0]>>
    /\ call' = NoCall
    /\ t_eval' = None
    /\ y' = 0
    /\ ts' = <<>>
    /\ ys' = <<>>
    /\ i' = 0
    /\ err' = "None"
    /\ result' = NoResult
    /\ expect' = None
    /\ UNCHANGED <<self, ctor, probe, out>>

-----------------------------------------------------------------------------
(* The solvers and the calls of the model                                  *)

IntV(xs) == Vec("int", [k \in 1..Len(xs) |-> IntS(xs[k])])

Mat22 == [dtype |-> "int", shape |-> <<2, 2>>, data |-> IntV(<<1, 0, 0, 1>>).data]

ImagS == [dtype |-> "complex", shape |-> <<>>, data |-> <<El(Zero, FromInt(1))>>]

\* the derivative functions
Fs == { Fn("const", IntS(1), 0),             \* lambda t, y: 1
        Fn("const", ImagS, 0),               \* lambda t, y: 1j
        Fn("const", IntV(<<1, 2>>), 0),      \* lambda t, y: np.array([1, 2])
        Fn("const", IntV(<<1, 2, 3>>), 0),   \* lambda t, y: np.array([1, 2, 3])
        Fn("const", Mat22, 0),               \* lambda t, y: np.eye(2, dtype=int)
        Fn("ident", None, 0),
        Fn("time", None, 0),
        Fn("inplace", None, 0),
        Fn("neg", None, 2),
        Fn("half", None, 2),
        Fn("half", None, 1) }

\* the initial conditions, as np.array makes them of the argument: 1, [1, 0], 0.5
Y0s == { IntS(1), IntV(<<1, 0>>), FloatS(1, 1) }

DTypes == { "None", "float" }

T0s == { IntS(0), IntS(1) }

\* method names
Methods == { <<"e", "u", "l", "e", "r">>, <<"E", "u", "l", "e", "r">>,
             <<"r", "k", "4">>, <<"h", "e", "u", "n">> }

\* (t_end, dt) of the calls in uniform mode
Uniforms == { <<IntS(2), IntS(1)>>, <<IntS(3), IntS(2)>>, <<IntS(1), FloatS(1, 1)>>,
              <<IntS(-1), IntS(2)>>, <<IntS(2), IntS(0)>>, <<IntS(2), IntS(-1)>>,
              <<IntS(-1), IntS(-1)>> }

\* t_eval of the calls in explicit-grid mode, as np.asarray makes it of a list
Grids == { IntV(<<0, 1, 3>>), IntV(<<0, 1, 1>>), IntV(<<0, 2, 1>>), IntV(<<1, 0>>),
           IntV(<<2>>), IntV(<<>>),
           Vec("float", <<IntS(0), FloatS(1, 1), FloatS(3, 1)>>) }

NoOut == [euler |-> None, rk4 |-> None, F |-> None, arg |-> None]

Init ==
    /\ \E f \in Fs, t0 \in T0s, y0 \in Y0s, dtype \in DTypes :
          LET s == ODESolver(f, t0, y0, dtype)
          IN  /\ self = s.self
              /\ heap = s.heap
              /\ ctor = s.heap[1]
    /\ call = NoCall
    /\ t_eval = None
    /\ y = 0
    /\ ts = <<>>
    /\ ys = <<>>
    /\ i = 0
    /\ pc = "idle"
    /\ err = "None"
    /\ result = NoResult
    /\ expect = None
    /\ probe = None
    /\ out = NoOut

Next ==
    \/ \E u \in Uniforms, m \in Methods : SolveUniform(u[1], u[2], m)
    \/ \E te \in Grids, m \in Methods : SolveExplicit(te, m)
    \/ SolveAgain
    \/ Iterate
    \/ Return
    \/ Forget

Spec == Init /\ [][Next]_vars

-----------------------------------------------------------------------------
(* One step of each stepper on a constant derivative f(t, y) = c           *)

\* the constants c, the step sizes h and the states y of the single steps
StepCs == { IntS(1), IntS(3), IntS(7), FloatS(1, 1), FloatS(-3, 2), FloatS(5, 0) }

StepHs == { IntS(1), IntS(6), FloatS(3, 0), FloatS(3, 2), FloatS(1, 1), FloatS(7, 3) }

StepYs == { IntV(<<0>>), IntV(<<1, 2>>), Vec("float", <<FloatS(1, 1)>>) }

InitStep ==
    /\ \E c \in StepCs, h \in StepHs, y0 \in StepYs :
          LET s == ODESolver(Fn("const", c, 0), IntS(0), y0, "None")
          IN  /\ self = s.self
              /\ heap = s.heap
              /\ ctor = s.heap[1]
              /\ probe = [t |-> IntS(0), y |-> s.heap[1], h |-> h]
    /\ call = NoCall
    /\ t_eval = None
    /\ y = 0
    /\ ts = <<>>
    /\ ys = <<>>
    /\ i = 0
    /\ pc = "idle"
    /\ err = "None"
    /\ result = NoResult
    /\ expect = None
    /\ out = NoOut

\* self._step_euler(t, y, dt)
ApplyEuler ==
    /\ out.euler = None
    /\ \E r \in {step_euler(self.f, probe.t, probe.y, probe.h)} :
          out' = [out EXCEPT !.euler = r.y]
    /\ UNCHANGED <<self, heap, ctor, call, t_eval, y, ts, ys, i, pc, err, result,
                   expect, probe>>

\* self._step_rk4(t, y, dt)
ApplyRK4 ==
    /\ out.rk4 = None
    /\ \E r \in {step_rk4(self.f, probe.t, probe.y, probe.h)} :
          out' = [out EXCEPT !.rk4 = r.y]
    /\ UNCHANGED <<self, heap, ctor, call, t_eval, y, ts, ys, i, pc, err, result,
                   expect, probe>>

NextStep == ApplyEuler \/ ApplyRK4

SpecStep == InitStep /\ [][NextStep]_vars

-----------------------------------------------------------------------------
(* One application of the function nth_order_to_system returns             *)

\* the largest order n
MaxOrder == 3

ReduceElems == { IntS(-1), IntS(2), FloatS(3, 1) }

\* the 1-D arrays of n elements
RECURSIVE Lists(_)
Lists(n) ==
    IF n = 0 THEN { <<>> }
    ELSE { Append(xs, x) : xs \in Lists(n - 1), x \in ReduceElems }

InitReduce ==
    /\ \E n \in 1..MaxOrder, kind \in {"neg", "half"}, dtype \in {"int", "float", "complex"} :
       \E xs \in Lists(n) :
          /\ self = [f |-> Fn(kind, None, n), t0 |-> IntS(0), y0 |-> 1, dim |-> n]
          /\ heap = <<Vec(dtype, xs)>>
          /\ ctor = Vec(dtype, xs)
          /\ probe = [t |-> IntS(0), y |-> Vec(dtype, xs), h |-> None]
    /\ call = NoCall
    /\ t_eval = None
    /\ y = 0
    /\ ts = <<>>
    /\ ys = <<>>
    /\ i = 0
    /\ pc = "idle"
    /\ err = "None"
    /\ result = NoResult
    /\ expect = None
    /\ out = NoOut

\* F(t, Y) for F = nth_order_to_system(g, n)
ApplyF ==
    /\ out.F = None
    /\ \E r \in {F(self.f.kind, self.f.n, probe.t, probe.y)} :
          out' = [out EXCEPT !.F = r.ret, !.arg = r.arg]
    /\ UNCHANGED <<self, heap, ctor, call, t_eval, y, ts, ys, i, pc, err, result,
                   expect, probe>>

NextReduce == ApplyF

SpecReduce == InitReduce /\ [][NextReduce]_vars

-----------------------------------------------------------------------------
(* The claims                                                              *)

EulerName == <<"e", "u", "l", "e", "r">>

RK4Name == <<"r", "k", "4">>

\* the real value of a scalar
Re(S) == S.data[1].re

\* the states solve has recorded so far, one per grid point reached
Recorded == [k \in 1..Len(ys) |-> heap[ys[k]]]

C2_OneStatePerGridPoint ==
    pc = "returned" =>
        /\ result.times.data = t_eval.data
        /\ result.times.shape[1] = (Len(ys) - 1) + 1
        /\ result.states.shape[1] = (Len(ys) - 1) + 1

\* C3: in uniform mode with t0 < t_end and dt > 0 the first returned time is
\* t0, the last is t_end and none lies beyond t_end.
C3_UniformGridEnds ==
    (/\ pc = "returned"
     /\ call.mode = "uniform"
     /\ LessX(Re(self.t0), Re(call.t_end))
     /\ LessX(Zero, Re(call.dt))) =>
        /\ result.times.data[1].re = Re(self.t0)
        /\ result.times.data[Len(result.times.data)].re = Re(call.t_end)
        /\ \A k \in 1..Len(result.times.data) :
              ~LessX(Re(call.t_end), result.times.data[k].re)

\* C4: a call whose method name is neither "euler" nor "rk4" (in any case of
\* letters) raises: it returns no trajectory and takes no step.
C4_UnknownMethodRaises ==
    (pc # "idle" /\ lower(call.method) \notin {EulerName, RK4Name}) =>
        (pc # "returned" /\ Len(ys) < 2)

StrictlyMonotonic(te) ==
    \/ \A k \in 1..(te.shape[1] - 1) : LessX(te.data[k].re, te.data[k + 1].re)
    \/ \A k \in 1..(te.shape[1] - 1) : LessX(te.data[k + 1].re, te.data[k].re)

\* the calls whose time specification is invalid: an explicit grid that is
\* empty or has a repeated or out-of-order point; dt = 0; dt pointing away
\* from t_end
InvalidGrid(c, t0) ==
    IF c.mode = "explicit"
    THEN c.t_eval.shape[1] = 0 \/ ~StrictlyMonotonic(c.t_eval)
    ELSE \/ Re(c.dt) = Zero
         \/ LessX(Zero, Re(c.dt)) /\ LessX(Re(c.t_end), Re(t0))
         \/ LessX(Re(c.dt), Zero) /\ LessX(Re(t0), Re(c.t_end))

\* C5: a call with an invalid time specification raises before any stepper
\* call and returns no trajectory.
C5_InvalidGridRaises ==
    (pc # "idle" /\ InvalidGrid(call, self.t0)) =>
        (pc # "returned" /\ Len(ys) < 2)

\* C6: when f returns a value that has not the dimension of y, the first
\* stepper invocation raises: no step is taken with a broadcast or
\* re-dimensioned state, and every state of a returned trajectory has the
\* shape of y0.
C6_ShapeMismatchRaises ==
    /\ Len(ys) >= 2 =>
          Size(f_call(self.f, Item(t_eval, 1), Recorded[1]).ret.shape)
              = Size(Recorded[1].shape)
    /\ pc = "returned" =>
          \A k \in 1..Len(ys) : Recorded[k].shape = heap[self.y0].shape

KindOf(dtype) == IF dtype = "complex" THEN "complex" ELSE "real"

\* C7: every state of the trajectory has the numeric kind (real or complex)
\* of y0, whatever f returns.
C7_KindPreserved ==
    /\ \A k \in 1..Len(ys) : KindOf(Recorded[k].dtype) = KindOf(heap[self.y0].dtype)
    /\ pc = "returned" => KindOf(result.states.dtype) = KindOf(heap[self.y0].dtype)

\* C8: F = nth_order_to_system(g, n) applied to (t, Y), Y of dimension n,
\* gives n values, F[i] = Y[i+1] for the first n - 1 and F[n-1] equal to
\* g(t, *Y) as g returned it, whatever the dtype of Y, and leaves Y unchanged.
C8_ReducedSystem ==
    out.F # None =>
        /\ out.F.shape = <<self.f.n>>
        /\ \A k \in 1..(self.f.n - 1) : out.F.data[k] = probe.y.data[k + 1]
        /\ out.F.data[self.f.n] = g(self.f.kind, probe.t, probe.y).data[1]
        /\ out.arg = probe.y

\* the exact value y + h*c of every component
ExactStep == [k \in 1..Len(probe.y.data) |->
                 AddX(probe.y.data[k].re, MulX(Re(probe.h), Re(self.f.val)))]

Reals(A) == [k \in 1..Len(A.data) |-> A.data[k].re]

Representable(x) == RoundD(x) = x

\* no operation of either step rounds: h/6, 3c, 5c, 6c, h*c and every y + h*c
\* are floating-point numbers
NoRounding ==
    /\ MulX(DivR(Re(probe.h), FromInt(6)), FromInt(6)) = Re(probe.h)
    /\ \A m \in {1, 3, 5, 6} : Representable(MulX(FromInt(m), Re(self.f.val)))
    /\ Representable(MulX(Re(probe.h), Re(self.f.val)))
    /\ \A k \in 1..Len(probe.y.data) :
          Representable(probe.y.data[k].re) /\ Representable(ExactStep[k])

BothApplied == out.euler # None /\ out.rk4 # None

\* C9 as the spec states it: for every constant derivative c, state y and
\* step size h, an Euler step and an RK4 step both give exactly y + h*c.
C9_ExactForConstant ==
    BothApplied => (Reals(out.euler) = ExactStep /\ Reals(out.rk4) = ExactStep)

\* C9 as amended: when no floating-point operation of the two steps rounds,
\* an Euler step and an RK4 step both give exactly y + h*c.
C9_ExactWhenNoRounding ==
    (BothApplied /\ NoRounding) =>
        (Reals(out.euler) = ExactStep /\ Reals(out.rk4) = ExactStep)

\* C9's case: both steps taken with h = 3/4 and c = 5 on y = [1, 2], where
\* nothing rounds
C9_Witness ==
    /\ BothApplied
    /\ NoRounding
    /\ probe.h = FloatS(3, 2)
    /\ self.f.val = FloatS(5, 0)
    /\ probe.y = IntV(<<1, 2>>)

\* C10: solve never changes self.y0; a state once recorded is not altered by
\* later steps, also when f modifies its argument in place; and solve called
\* again with the same arguments ends as the call before it did.
C10_NoAliasing ==
    /\ [](heap[self.y0] = ctor)
    /\ []((expect # None /\ pc \in {"returned", "raised"}) => Outcome = expect)
    /\ [][pc = "loop" => \A k \in 1..Len(ys) : heap'[ys'[k]] = heap[ys[k]]]_vars

\* C10's case: a repeated call has returned after two steps with an f that
\* adds 1 to its argument in place
C10_Witness ==
    /\ pc = "returned"
    /\ expect # None
    /\ self.f.kind = "inplace"
    /\ Len(ys) = 3

====
